---- MODULE Spec2Model ----
(***************************************************************************)
(* ShippingCouncil: the Council orchestrator's task lifecycle              *)
(* (core/council.py, core/task.py), the agents' trigger matching and       *)
(* API-call limit (agents), and the multi-bot routing decision              *)
(* (integrations/discord/multi_bot.py).                                    *)
(*                                                                         *)
(* Coroutines are modelled at await granularity: the code between two      *)
(* awaits of one coroutine is one atomic action (asyncio's single-threaded *)
(* event loop), and every await is a point where other coroutines may run. *)
(***************************************************************************)
EXTENDS Integers, Sequences, FiniteSets, TLC

(* ---- bounds ---- *)
\* Council.create_task calls in a behaviour of Spec
MaxTasks == 1
\* TaskManager.create_task calls in a behaviour of SpecTM
MaxCreated == 3
\* size of the modelled id space
NumIds == 2

(***************************************************************************)
(* core/task.py                                                            *)
(***************************************************************************)
TaskStatus ==
  {"pending", "in_progress", "awaiting_approval", "approved", "completed",
   "failed", "cancelled"}

Objs == 1..(IF MaxTasks > MaxCreated THEN MaxTasks ELSE MaxCreated)
\* The values str(uuid.uuid4())[:8] can take (an abstraction of 16^8 values).
Ids == 1..NumIds
AgentTypes == {"developer", "backend_dev", "devops", "other"}
NoRet == [op |-> "none", id |-> 0, obj |-> 0, val |-> FALSE]

VARIABLES
  _default_repo,   \* Council._default_repo: "none" or "default"
  nTasks,          \* number of Task objects constructed so far
  task,            \* Task objects: obj -> record of fields
  _tasks,          \* TaskManager._tasks: id -> obj (0: no entry)
  _running_tasks,  \* Council._running_tasks: id -> obj whose execution handle is stored (0: no entry)
  createPc,        \* position of Council.create_task/_start_task called for obj
  execPc,          \* position of the asyncio task running Council._execute_task(obj)
  mustCancel,      \* asyncio.Task.cancel() requested and not yet delivered
  cancelWait,      \* number of cancel_task calls awaiting their notification
  approvePc,       \* position of approve_task for obj
  notified,        \* obj -> set of status messages handed to _notify_status
  ret,             \* value returned by the call that returned in the last step
  agentOps,        \* obj -> agent operations begun for it ("setup", "run")
  cancelledOk,     \* obj -> cancel_task has returned True for it
  _tasks_keys,     \* the keys of TaskManager._tasks in the dict's (insertion) order
  created_with,    \* obj -> the repo_url and repo_full_name its create_task call was given
  stopped,         \* obj -> Council.stop() found its execution registered
  _github_client,  \* Council._github_client: "none", "connected" or "closed"
  repos_ret,       \* the last list_repos call: what it saw and what it returned
  \* -- TaskManager used directly (SpecTM)
  tm_ret,          \* result of the last TaskManager call
  tm_deleted,      \* delete_task has removed an entry
  listed,          \* the last list_tasks call: its filters and the list it returned
  \* -- agents: trigger matching (SpecRelevant) and routing (SpecRouting)
  _triggers,       \* the agent's configured triggers (agents.yaml)
  call,            \* arguments of is_relevant: message, triggers
  relevant,        \* agent class -> what its is_relevant returned
  incoming,        \* the Discord message handed to on_message
  decision,        \* bot -> what its on_message did with the message
  \* -- agents: API-call limit (SpecAgent)
  agent_cls,       \* class of the agent instance
  _api_call_count, \* BaseAgent._api_call_count
  _client,         \* BaseAgent._client is set
  sdk_calls,       \* calls that reached the SDK since the last reset()
  inflight,        \* calls suspended at an await, by position
  result,          \* AgentResult of the call that returned in the last step
  _session_id,     \* BaseAgent._session_id ("none": None)
  sent,            \* the call that entered the SDK, or reset, in the last step
  \* -- Discord replies (SpecReply)
  reply_in,        \* the handler, the AgentResult and the configuration it works on
  reply_out,       \* length of the text the handler passed to send/reply
  \* -- working copies of concurrently executing developer tasks (SpecClone)
  work,            \* execution -> its repository and its position
  clone_dirs       \* clone directory (by name) -> the execution whose clone it holds

cvars ==
  <<_default_repo, nTasks, task, _tasks, _running_tasks, createPc, execPc,
    mustCancel, cancelWait, approvePc, notified, ret, agentOps,
    cancelledOk, _tasks_keys, created_with, stopped, _github_client,
    repos_ret>>

\* Council state that only create_task, stop, start and list_repos touch.
cextra == <<_tasks_keys, created_with, stopped, _github_client, repos_ret>>

tmvars == <<tm_ret, tm_deleted, listed>>
rvars == <<_triggers, call, relevant>>
bvars == <<incoming, decision>>
avars ==
  <<agent_cls, _api_call_count, _client, sdk_calls, inflight, result,
    _session_id, sent>>
pvars == <<reply_in, reply_out>>
kvars == <<work, clone_dirs>>
xvars == <<pvars, kvars>>
vars == <<cvars, tmvars, rvars, bvars, avars, xvars>>
nonCouncil == <<tmvars, rvars, bvars, avars, xvars>>

NoTask ==
  [id |-> 0, agent_type |-> "none", repo_url |-> "none",
   repo_full_name |-> "none", status |-> "none", error |-> FALSE,
   result |-> FALSE, auto_start |-> FALSE, created_at |-> 0]

\* Task.created_at, datetime.now() when the Task is constructed: the clock
\* never runs backwards, and two readings within its resolution are equal.
LatestCreatedAt ==
  IF nTasks = 0 THEN 0
  ELSE CHOOSE t \in {task[o].created_at : o \in 1..nTasks} :
         \A o \in 1..nTasks : task[o].created_at <= t

Now == IF nTasks = 0 THEN {1} ELSE {LatestCreatedAt, LatestCreatedAt + 1}

\* self._tasks[task.id] = task on the dict's key order: a new key goes last,
\* an existing key keeps its place.
KeyPos(keys, i) == {k \in 1..Len(keys) : keys[k] = i}
Insert(keys, i) == IF KeyPos(keys, i) # {} THEN keys ELSE Append(keys, i)

\* del self._tasks[task_id] on the dict's key order
Remove(keys, i) == SelectSeq(keys, LAMBDA k : k # i)

\* Task.update_status
update_status(o, s) == [task EXCEPT ![o].status = s]

\* Task.set_error
set_error(o) == [task EXCEPT ![o].error = TRUE, ![o].status = "failed"]

\* Task.set_result followed by Task.update_status
set_result_status(o, s) == [task EXCEPT ![o].result = TRUE, ![o].status = s]

\* TaskManager.get_task
get_task(i) == _tasks[i]

\* Council._notify_status: the message is handed to the status callback.
Notify(o, m) == [notified EXCEPT ![o] = @ \cup {m}]

\* Mutant of Cancel: the handle's cancel() is never called.
Cancel_Forgotten(mc, h) == mc

\* asyncio.Task.cancel() on the execution handle of obj h: no effect once done.
Cancel(mc, h) == IF execPc[h] = "done" THEN mc ELSE [mc EXCEPT ![h] = TRUE]

\* Council.create_task lines 92-95: the default repository.
DefaultedName(name) ==
  IF name = "none" /\ _default_repo # "none" THEN _default_repo ELSE name

DefaultedUrl(url, name) ==
  IF name = "none" /\ _default_repo # "none" THEN "default_url" ELSE url

(***************************************************************************)
(* Council.create_task up to its first await (notify "Task created").      *)
(***************************************************************************)
CreateTask(at, url, name, auto, i) ==
  /\ nTasks < MaxTasks
  /\ LET o == nTasks + 1 IN
     /\ nTasks' = o
     /\ \E now \in Now :
          task' = [task EXCEPT ![o] =
                     [id |-> i, agent_type |-> at,
                      repo_url |-> DefaultedUrl(url, name),
                      repo_full_name |-> DefaultedName(name),
                      status |-> "pending", error |-> FALSE, result |-> FALSE,
                      auto_start |-> auto, created_at |-> now]]
     /\ _tasks' = [_tasks EXCEPT ![i] = o]
     /\ _tasks_keys' = Insert(_tasks_keys, i)
     /\ created_with' =
          [created_with EXCEPT ![o] = [repo_url |-> url, repo_full_name |-> name]]
     /\ notified' = Notify(o, "Task created")
     /\ createPc' = [createPc EXCEPT ![o] = "notify_created"]
  /\ ret' = NoRet
  /\ UNCHANGED <<nonCouncil, _default_repo, _running_tasks, execPc, mustCancel,
                 cancelWait, approvePc, agentOps, cancelledOk, stopped,
                 _github_client, repos_ret>>

\* create_task resumes after "Task created": returns, or enters _start_task
\* up to its await (notify "Task started").
CreateResume(o) ==
  /\ createPc[o] = "notify_created"
  /\ IF task[o].auto_start
       THEN /\ task' = update_status(o, "in_progress")
            /\ notified' = Notify(o, "Task started")
            /\ createPc' = [createPc EXCEPT ![o] = "notify_started"]
            /\ ret' = NoRet
       ELSE /\ createPc' = [createPc EXCEPT ![o] = "done"]
            /\ ret' = [op |-> "create", id |-> task[o].id, obj |-> o, val |-> TRUE]
            /\ UNCHANGED <<task, notified>>
  /\ UNCHANGED <<nonCouncil, cextra, _default_repo, nTasks, _tasks, _running_tasks, execPc,
                 mustCancel, cancelWait, approvePc, agentOps,
                 cancelledOk>>

\* Mutant of StartResume: the execution is spawned but its handle is not stored.
StartResume_Unregistered(o) ==
  /\ createPc[o] = "notify_started"
  /\ execPc' = [execPc EXCEPT ![o] = "ready"]
  /\ mustCancel' = [mustCancel EXCEPT ![o] = FALSE]
  /\ createPc' = [createPc EXCEPT ![o] = "done"]
  /\ ret' = [op |-> "create", id |-> task[o].id, obj |-> o, val |-> TRUE]
  /\ UNCHANGED <<nonCouncil, cextra, _default_repo, nTasks, task, _tasks,
                 _running_tasks, cancelWait, approvePc, notified, agentOps,
                 cancelledOk>>

\* _start_task resumes after "Task started": spawns and registers the execution.
StartResume(o) ==
  /\ createPc[o] = "notify_started"
  /\ execPc' = [execPc EXCEPT ![o] = "ready"]
  /\ mustCancel' = [mustCancel EXCEPT ![o] = FALSE]
  /\ _running_tasks' = [_running_tasks EXCEPT ![task[o].id] = o]
  /\ createPc' = [createPc EXCEPT ![o] = "done"]
  /\ ret' = [op |-> "create", id |-> task[o].id, obj |-> o, val |-> TRUE]
  /\ UNCHANGED <<nonCouncil, cextra, _default_repo, nTasks, task, _tasks, cancelWait,
                 approvePc, notified, agentOps, cancelledOk>>

\* The finally block of Council._execute_task (lines 148-151).
Finally(o) == [_running_tasks EXCEPT ![task[o].id] = 0]

ExecPositions ==
  {"none", "ready", "notify_setup", "notify_cloned", "notify_working",
   "implement", "notify_analyzing", "chat", "notify_outcome",
   "notify_unknown", "notify_cancelled", "notify_error", "done"}

\* Awaits inside the try block of _execute_task, outside its except handlers.
InTry ==
  {"notify_setup", "notify_cloned", "notify_working", "implement",
   "notify_analyzing", "chat", "notify_outcome", "notify_unknown"}

(***************************************************************************)
(* First step of the asyncio task created by _start_task.  A task that was *)
(* cancelled before its first step has CancelledError thrown into the      *)
(* unstarted coroutine: no line of _execute_task runs, its finally         *)
(* included.                                                               *)
(***************************************************************************)
ExecStart(o) ==
  /\ execPc[o] = "ready"
  /\ mustCancel' = [mustCancel EXCEPT ![o] = FALSE]
  /\ ret' = NoRet
  /\ IF mustCancel[o]
       THEN /\ execPc' = [execPc EXCEPT ![o] = "done"]
            /\ UNCHANGED <<task, notified, _running_tasks>>
       ELSE IF task[o].agent_type \in {"developer", "backend_dev"}
       THEN IF task[o].repo_url = "none" \/ task[o].repo_full_name = "none"
              THEN /\ task' = set_error(o)
                   /\ _running_tasks' = Finally(o)
                   /\ execPc' = [execPc EXCEPT ![o] = "done"]
                   /\ UNCHANGED notified
              ELSE /\ notified' = Notify(o, "Setting up repository...")
                   /\ execPc' = [execPc EXCEPT ![o] = "notify_setup"]
                   /\ UNCHANGED <<task, _running_tasks>>
       ELSE IF task[o].agent_type = "devops"
       THEN /\ notified' = Notify(o, "DevOps agent analyzing...")
            /\ execPc' = [execPc EXCEPT ![o] = "notify_analyzing"]
            /\ UNCHANGED <<task, _running_tasks>>
       ELSE /\ task' = set_error(o)
            /\ notified' = Notify(o, "Error: Unknown agent type")
            /\ execPc' = [execPc EXCEPT ![o] = "notify_unknown"]
            /\ UNCHANGED _running_tasks
  /\ UNCHANGED <<nonCouncil, cextra, _default_repo, nTasks, _tasks, createPc, cancelWait,
                 approvePc, agentOps, cancelledOk>>

\* CancelledError delivered at an await inside the try block: the inner
\* finally (agent.cleanup, which never suspends) and then the handler of
\* lines 140-142 up to its await.
ExecCancelled(o) ==
  /\ execPc[o] \in InTry
  /\ mustCancel[o]
  /\ mustCancel' = [mustCancel EXCEPT ![o] = FALSE]
  /\ task' = update_status(o, "cancelled")
  /\ notified' = Notify(o, "Task cancelled")
  /\ execPc' = [execPc EXCEPT ![o] = "notify_cancelled"]
  /\ ret' = NoRet
  /\ UNCHANGED <<nonCouncil, cextra, _default_repo, nTasks, _tasks, _running_tasks, createPc,
                 cancelWait, approvePc, agentOps, cancelledOk>>

\* _execute_backend_dev_task resumes after "Setting up repository...":
\* BackendDevAgent(...) and agent.setup_repo (a blocking clone, no suspension).
ExecSetupRepo(o, cloned) ==
  /\ execPc[o] = "notify_setup"
  /\ ~mustCancel[o]
  /\ agentOps' = [agentOps EXCEPT ![o] = @ \cup {"setup"}]
  /\ IF cloned
       THEN /\ notified' = Notify(o, "Repository cloned")
            /\ execPc' = [execPc EXCEPT ![o] = "notify_cloned"]
            /\ UNCHANGED task
       ELSE \* clone raised: inner finally, then the handler of lines 144-146
            /\ task' = set_error(o)
            /\ notified' = Notify(o, "Error")
            /\ execPc' = [execPc EXCEPT ![o] = "notify_error"]
  /\ ret' = NoRet
  /\ UNCHANGED <<nonCouncil, cextra, _default_repo, nTasks, _tasks, _running_tasks, createPc,
                 mustCancel, cancelWait, approvePc, cancelledOk>>

\* resumes after "Repository cloned"
ExecCloned(o) ==
  /\ execPc[o] = "notify_cloned"
  /\ ~mustCancel[o]
  /\ notified' = Notify(o, "Working on implementation...")
  /\ execPc' = [execPc EXCEPT ![o] = "notify_working"]
  /\ ret' = NoRet
  /\ UNCHANGED <<nonCouncil, cextra, _default_repo, nTasks, task, _tasks, _running_tasks,
                 createPc, mustCancel, cancelWait, approvePc, agentOps,
                 cancelledOk>>

\* resumes after "Working on implementation...": agent.implement_feature
\* runs the agent and suspends in the SDK query.
ExecImplement(o) ==
  /\ execPc[o] = "notify_working"
  /\ ~mustCancel[o]
  /\ agentOps' = [agentOps EXCEPT ![o] = @ \cup {"run"}]
  /\ execPc' = [execPc EXCEPT ![o] = "implement"]
  /\ ret' = NoRet
  /\ UNCHANGED <<nonCouncil, cextra, _default_repo, nTasks, task, _tasks, _running_tasks,
                 createPc, mustCancel, cancelWait, approvePc, notified,
                 cancelledOk>>

\* implement_feature returns: lines 180-191.
ExecImplemented(o, success) ==
  /\ execPc[o] = "implement"
  /\ ~mustCancel[o]
  /\ IF success
       THEN /\ task' = set_result_status(o, "awaiting_approval")
            /\ notified' = Notify(o, "Implementation complete")
       ELSE /\ task' = set_error(o)
            /\ notified' = Notify(o, "Failed")
  /\ execPc' = [execPc EXCEPT ![o] = "notify_outcome"]
  /\ ret' = NoRet
  /\ UNCHANGED <<nonCouncil, cextra, _default_repo, nTasks, _tasks, _running_tasks, createPc,
                 mustCancel, cancelWait, approvePc, agentOps, cancelledOk>>

\* _execute_devops_task resumes after "DevOps agent analyzing...":
\* DevOpsAgent(...) and agent.chat, which suspends in the SDK query.
ExecChat(o) ==
  /\ execPc[o] = "notify_analyzing"
  /\ ~mustCancel[o]
  /\ agentOps' = [agentOps EXCEPT ![o] = @ \cup {"run"}]
  /\ execPc' = [execPc EXCEPT ![o] = "chat"]
  /\ ret' = NoRet
  /\ UNCHANGED <<nonCouncil, cextra, _default_repo, nTasks, task, _tasks, _running_tasks,
                 createPc, mustCancel, cancelWait, approvePc, notified,
                 cancelledOk>>

\* agent.chat returns: lines 211-217.
ExecChatted(o, success) ==
  /\ execPc[o] = "chat"
  /\ ~mustCancel[o]
  /\ IF success
       THEN /\ task' = set_result_status(o, "completed")
            /\ notified' = Notify(o, "Analysis complete")
       ELSE /\ task' = set_error(o)
            /\ notified' = Notify(o, "Failed")
  /\ execPc' = [execPc EXCEPT ![o] = "notify_outcome"]
  /\ ret' = NoRet
  /\ UNCHANGED <<nonCouncil, cextra, _default_repo, nTasks, _tasks, _running_tasks, createPc,
                 mustCancel, cancelWait, approvePc, agentOps, cancelledOk>>

\* The last await of the coroutine returns (or, inside an except handler,
\* raises CancelledError): the finally blocks run and the coroutine ends.
ExecFinish(o) ==
  /\ \/ execPc[o] \in {"notify_outcome", "notify_unknown"} /\ ~mustCancel[o]
     \/ execPc[o] \in {"notify_cancelled", "notify_error"}
  /\ _running_tasks' = Finally(o)
  /\ execPc' = [execPc EXCEPT ![o] = "done"]
  /\ mustCancel' = [mustCancel EXCEPT ![o] = FALSE]
  /\ ret' = NoRet
  /\ UNCHANGED <<nonCouncil, cextra, _default_repo, nTasks, task, _tasks, createPc, cancelWait,
                 approvePc, notified, agentOps, cancelledOk>>

(***************************************************************************)
(* Council.cancel_task up to its await (notify "Task cancelled").          *)
(***************************************************************************)
CancelTask(i) ==
  LET o == get_task(i) IN
  IF o = 0 \/ task[o].status \notin {"pending", "in_progress"}
    THEN /\ ret' = [op |-> "cancel", id |-> i, obj |-> o, val |-> FALSE]
         /\ UNCHANGED <<nonCouncil, cextra, _default_repo, nTasks, task, _tasks, _running_tasks,
                        createPc, execPc, mustCancel, cancelWait, approvePc,
                        notified, agentOps, cancelledOk>>
    ELSE /\ mustCancel' = IF _running_tasks[i] # 0
                             THEN Cancel(mustCancel, _running_tasks[i])
                             ELSE mustCancel
         /\ task' = update_status(o, "cancelled")
         /\ notified' = Notify(o, "Task cancelled")
         /\ cancelWait' = [cancelWait EXCEPT ![o] = @ + 1]
         /\ ret' = NoRet
         /\ UNCHANGED <<nonCouncil, cextra, _default_repo, nTasks, _tasks, _running_tasks,
                        createPc, execPc, approvePc, agentOps, cancelledOk>>

\* cancel_task resumes after its notification and returns True.
CancelReturn(o) ==
  /\ cancelWait[o] > 0
  /\ cancelWait' = [cancelWait EXCEPT ![o] = @ - 1]
  /\ cancelledOk' = [cancelledOk EXCEPT ![o] = TRUE]
  /\ ret' = [op |-> "cancel", id |-> task[o].id, obj |-> o, val |-> TRUE]
  /\ UNCHANGED <<nonCouncil, cextra, _default_repo, nTasks, task, _tasks, _running_tasks,
                 createPc, execPc, mustCancel, approvePc, notified, agentOps>>

(***************************************************************************)
(* Council.approve_task up to its await (notify "Task approved!").         *)
(***************************************************************************)
ApproveTask(i) ==
  LET o == get_task(i) IN
  IF o = 0 \/ task[o].status # "awaiting_approval"
    THEN /\ ret' = [op |-> "approve", id |-> i, obj |-> o, val |-> FALSE]
         /\ UNCHANGED <<nonCouncil, cextra, _default_repo, nTasks, task, _tasks, _running_tasks,
                        createPc, execPc, mustCancel, cancelWait, approvePc,
                        notified, agentOps, cancelledOk>>
    ELSE /\ task' = update_status(o, "approved")
         /\ notified' = Notify(o, "Task approved!")
         /\ approvePc' = [approvePc EXCEPT ![o] = "notify_approved"]
         /\ ret' = NoRet
         /\ UNCHANGED <<nonCouncil, cextra, _default_repo, nTasks, _tasks, _running_tasks,
                        createPc, execPc, mustCancel, cancelWait, agentOps,
                        cancelledOk>>

\* Mutant of ApproveReturn: returns True without the final update_status.
ApproveReturn_StaysApproved(o) ==
  /\ approvePc[o] = "notify_approved"
  /\ approvePc' = [approvePc EXCEPT ![o] = "idle"]
  /\ ret' = [op |-> "approve", id |-> task[o].id, obj |-> o, val |-> TRUE]
  /\ UNCHANGED <<nonCouncil, cextra, _default_repo, nTasks, task, _tasks,
                 _running_tasks, createPc, execPc, mustCancel, cancelWait,
                 notified, agentOps, cancelledOk>>

\* approve_task resumes after its notification: lines 284-286.
ApproveReturn(o) ==
  /\ approvePc[o] = "notify_approved"
  /\ task' = update_status(o, "completed")
  /\ approvePc' = [approvePc EXCEPT ![o] = "idle"]
  /\ ret' = [op |-> "approve", id |-> task[o].id, obj |-> o, val |-> TRUE]
  /\ UNCHANGED <<nonCouncil, cextra, _default_repo, nTasks, _tasks, _running_tasks, createPc,
                 execPc, mustCancel, cancelWait, notified, agentOps,
                 cancelledOk>>

\* Council.stop: cancel() on every registered execution handle, then
\* GitHubClient.disconnect (which never suspends) if there is a client.
RECURSIVE CancelAll(_, _)
CancelAll(mc, S) ==
  IF S = {} THEN mc
  ELSE LET h == CHOOSE x \in S : TRUE IN CancelAll(Cancel(mc, h), S \ {h})

Registered == {_running_tasks[i] : i \in Ids} \ {0}

Stop ==
  /\ mustCancel' = CancelAll(mustCancel, Registered)
  /\ stopped' = [o \in Objs |-> stopped[o] \/ o \in Registered]
  /\ _github_client' =
       IF _github_client = "none" THEN "none" ELSE "closed"
  /\ ret' = NoRet
  /\ UNCHANGED <<nonCouncil, _default_repo, nTasks, task, _tasks, _running_tasks,
                 createPc, execPc, cancelWait, approvePc, notified, agentOps,
                 cancelledOk, _tasks_keys, created_with, repos_ret>>

\* Council.start: a new GitHubClient, connected (connect never suspends).
Start ==
  /\ _github_client' = "connected"
  /\ ret' = NoRet
  /\ UNCHANGED <<nonCouncil, _default_repo, nTasks, task, _tasks, _running_tasks,
                 createPc, execPc, mustCancel, cancelWait, approvePc, notified,
                 agentOps, cancelledOk, _tasks_keys, created_with, stopped,
                 repos_ret>>

NoRepos == [client |-> "none", github_ok |-> FALSE, outcome |-> "none"]

\* Mutant of list_repos_outcome: no try/except around the GitHub call.
list_repos_Unguarded(github_ok) ==
  IF _github_client = "none" THEN "empty"
  ELSE IF _github_client = "closed" THEN "raised"
  ELSE IF ~github_ok THEN "raised"
  ELSE "full_names"

\* Council.list_repos: [] without a client; GitHubClient.client raises
\* RuntimeError on a closed client and the GitHub call may raise, both
\* caught by `except Exception`.
list_repos_outcome(github_ok) ==
  IF _github_client = "none" THEN "empty"
  ELSE IF _github_client = "closed" THEN "empty"
  ELSE IF ~github_ok THEN "empty"
  ELSE "full_names"

ListRepos(github_ok) ==
  /\ repos_ret' = [client |-> _github_client, github_ok |-> github_ok,
                   outcome |-> list_repos_outcome(github_ok)]
  /\ ret' = NoRet
  /\ UNCHANGED <<nonCouncil, _default_repo, nTasks, task, _tasks, _running_tasks,
                 createPc, execPc, mustCancel, cancelWait, approvePc, notified,
                 agentOps, cancelledOk, _tasks_keys, created_with, stopped,
                 _github_client>>

(***************************************************************************)
(* TaskManager used directly (core/task.py lines 91-189).                  *)
(***************************************************************************)
\* what the last list_tasks call was given and returned
NoList ==
  [called |-> FALSE, status |-> [given |-> FALSE, value |-> "none"],
   agent_type |-> [given |-> FALSE, value |-> "none"], tasks |-> <<>>]

TMCreateTask(at, i) ==
  /\ nTasks < MaxCreated
  /\ LET o == nTasks + 1 IN
     /\ nTasks' = o
     /\ \E now \in Now :
          task' = [task EXCEPT ![o] =
                     [NoTask EXCEPT !.id = i, !.agent_type = at,
                                    !.status = "pending", !.created_at = now]]
     /\ _tasks' = [_tasks EXCEPT ![i] = o]
     /\ _tasks_keys' = Insert(_tasks_keys, i)
     /\ tm_ret' = [op |-> "create", id |-> i, obj |-> o, val |-> TRUE]
  /\ listed' = NoList
  /\ UNCHANGED <<tm_deleted, rvars, bvars, avars, xvars, _default_repo,
                 _running_tasks, createPc, execPc, mustCancel, cancelWait,
                 approvePc, notified, ret, agentOps, cancelledOk,
                 created_with, stopped, _github_client, repos_ret>>

\* TaskManager.get_task
TMGetTask(i) ==
  /\ tm_ret' = [op |-> "get", id |-> i, obj |-> get_task(i),
                val |-> get_task(i) # 0]
  /\ listed' = NoList
  /\ UNCHANGED <<cvars, tm_deleted, rvars, bvars, avars, xvars>>

\* TaskManager.update_task(task_id, status=s)
TMUpdateTask(i, s) ==
  /\ IF _tasks[i] # 0
       THEN /\ task' = update_status(_tasks[i], s)
            /\ tm_ret' = [op |-> "update", id |-> i, obj |-> _tasks[i],
                          val |-> TRUE]
       ELSE /\ tm_ret' = [op |-> "update", id |-> i, obj |-> 0, val |-> FALSE]
            /\ UNCHANGED task
  /\ listed' = NoList
  /\ UNCHANGED <<tm_deleted, rvars, bvars, avars, xvars, _default_repo, nTasks,
                 _tasks, _running_tasks, createPc, execPc, mustCancel,
                 cancelWait, approvePc, notified, ret, agentOps, cancelledOk,
                 cextra>>

\* Mutant of TMDeleteTask: reports True without removing the entry.
TMDeleteTask_KeepsEntry(i) ==
  /\ tm_ret' = [op |-> "delete", id |-> i, obj |-> _tasks[i],
                val |-> _tasks[i] # 0]
  /\ listed' = NoList
  /\ UNCHANGED <<cvars, tm_deleted, rvars, bvars, avars, xvars>>

\* TaskManager.delete_task
TMDeleteTask(i) ==
  /\ IF _tasks[i] # 0
       THEN /\ _tasks' = [_tasks EXCEPT ![i] = 0]
            /\ _tasks_keys' = Remove(_tasks_keys, i)
            /\ tm_deleted' = TRUE
            /\ tm_ret' = [op |-> "delete", id |-> i, obj |-> _tasks[i],
                          val |-> TRUE]
       ELSE /\ tm_ret' = [op |-> "delete", id |-> i, obj |-> 0, val |-> FALSE]
            /\ UNCHANGED <<_tasks, _tasks_keys, tm_deleted>>
  /\ listed' = NoList
  /\ UNCHANGED <<rvars, bvars, avars, xvars, _default_repo, nTasks, task,
                 _running_tasks, createPc, execPc, mustCancel, cancelWait,
                 approvePc, notified, ret, agentOps, cancelledOk,
                 created_with, stopped, _github_client, repos_ret>>

\* list(self._tasks.values()): the registered tasks in the dict's order
values == [k \in 1..Len(_tasks_keys) |-> _tasks[_tasks_keys[k]]]

\* sorted(tasks, key=lambda t: t.created_at, reverse=True): a stable sort,
\* so tasks with equal created_at keep the order they had in `tasks`.
InsertDesc(sorted, o) ==
  LET k == Cardinality({n \in 1..Len(sorted) :
                          task[sorted[n]].created_at >= task[o].created_at})
  IN SubSeq(sorted, 1, k) \o <<o>> \o SubSeq(sorted, k + 1, Len(sorted))

RECURSIVE sorted_newest_first(_)
sorted_newest_first(tasks) ==
  IF tasks = <<>> THEN <<>>
  ELSE InsertDesc(sorted_newest_first(SubSeq(tasks, 1, Len(tasks) - 1)),
                  tasks[Len(tasks)])

\* TaskManager.list_tasks(status, agent_type).  `if status:` holds for every
\* TaskStatus member; `if agent_type:` fails for None and for "".
list_tasks(status, agent_type) ==
  LET all == values
      by_status ==
        IF status.given
          THEN SelectSeq(all, LAMBDA o : task[o].status = status.value)
          ELSE all
      by_type ==
        IF agent_type.given /\ agent_type.value # ""
          THEN SelectSeq(by_status,
                         LAMBDA o : task[o].agent_type = agent_type.value)
          ELSE by_status
  IN sorted_newest_first(by_type)

\* TaskManager.list_tasks; Council.list_tasks passes its status filter on.
TMListTasks(status, agent_type) ==
  /\ listed' = [called |-> TRUE, status |-> status, agent_type |-> agent_type,
                tasks |-> list_tasks(status, agent_type)]
  /\ tm_ret' = [op |-> "list", id |-> 0, obj |-> 0, val |-> TRUE]
  /\ UNCHANGED <<cvars, tm_deleted, rvars, bvars, avars, xvars>>

(***************************************************************************)
(* Trigger matching: is_relevant of BaseAgent, BackendDevAgent and         *)
(* DevOpsAgent.  A string is a sequence of characters.                     *)
(***************************************************************************)
MaxMsgLen == 3
MaxTrigLen == 2
\* triggers passed to is_relevant / configured for a bot
MaxTriggers == 2
\* triggers configured on the agent whose is_relevant is called directly
MaxCfgTriggers == 1

Chars == {"a", "A", "b"}
Strings(n) == UNION {[1..k -> Chars] : k \in 0..n}
TriggerLists(n) == UNION {[1..k -> Strings(MaxTrigLen)] : k \in 0..n}

\* str.lower()
lower(s) == [k \in 1..Len(s) |-> IF s[k] = "A" THEN "a" ELSE s[k]]

\* Python's `t in m` on strings
In(t, m) ==
  \E k \in 0..(Len(m) - Len(t)) : \A j \in 1..Len(t) : m[k + j] = t[j]

\* Mutant of AnyTrigger: the trigger is not lower-cased.
AnyTrigger_TriggerAsIs(message, check_triggers) ==
  \E n \in 1..Len(check_triggers) : In(check_triggers[n], lower(message))

\* any(trigger.lower() in message_lower for trigger in check_triggers)
AnyTrigger(message, check_triggers) ==
  LET message_lower == lower(message) IN
  \E n \in 1..Len(check_triggers) : In(lower(check_triggers[n]), message_lower)

\* The optional argument `triggers`: None, or a list.
None == [given |-> FALSE, list |-> <<>>]
Some(l) == [given |-> TRUE, list |-> l]

\* Python's `triggers or default`: None and [] are both falsy.
Or(triggers, default) ==
  IF triggers.given /\ triggers.list # <<>> THEN triggers.list ELSE default

\* BaseAgent.is_relevant.  self.config is agents.base.AgentConfig, which has
\* no attribute `triggers`, so getattr(self.config, "triggers", []) is [].
Base_is_relevant(message, triggers) ==
  LET check_triggers == Or(triggers, <<>>) IN
  IF check_triggers = <<>> THEN TRUE
  ELSE AnyTrigger(message, check_triggers)

\* BackendDevAgent.is_relevant
BackendDev_is_relevant(message, triggers) ==
  AnyTrigger(message, Or(triggers, _triggers))

\* DevOpsAgent.is_relevant
DevOps_is_relevant(message, triggers) ==
  AnyTrigger(message, Or(triggers, _triggers))

Unset == [cls |-> "none", val |-> FALSE]

BaseIsRelevant ==
  /\ relevant' = [cls |-> "base",
                  val |-> Base_is_relevant(call.message, call.triggers)]
  /\ UNCHANGED <<cvars, tmvars, xvars, _triggers, call, bvars, avars>>

BackendDevIsRelevant ==
  /\ relevant' = [cls |-> "backend_dev",
                  val |-> BackendDev_is_relevant(call.message, call.triggers)]
  /\ UNCHANGED <<cvars, tmvars, xvars, _triggers, call, bvars, avars>>

DevOpsIsRelevant ==
  /\ relevant' = [cls |-> "devops",
                  val |-> DevOps_is_relevant(call.message, call.triggers)]
  /\ UNCHANGED <<cvars, tmvars, xvars, _triggers, call, bvars, avars>>

NoCall == [message |-> <<>>, triggers |-> None]
RelevantIdle == _triggers = <<>> /\ call = NoCall /\ relevant = Unset

(***************************************************************************)
(* MultiBotCoordinator.start_all.on_message (multi_bot.py lines 114-189).  *)
(***************************************************************************)
Authors == {"self", "other_bot", "human"}
NoMessage ==
  [author |-> "human", mentioned |-> FALSE, everyone |-> FALSE, dm |-> FALSE,
   content |-> <<>>]
NoDecision == [bot |-> "none", respond |-> FALSE, reply |-> "none"]

\* ag.is_relevant(message.content, ag_config.triggers); the bot's agent was
\* built by _create_agent with triggers=agent_config.triggers.
Bot_is_relevant(bot, content) ==
  IF bot = "backend_dev"
    THEN BackendDev_is_relevant(content, Some(_triggers))
    ELSE DevOps_is_relevant(content, Some(_triggers))

\* Mutant of should_respond: messages of other bots are not ignored.
should_respond_AnswersBots(bot, message) ==
  IF message.author = "self" THEN FALSE
  ELSE IF message.mentioned THEN TRUE
  ELSE IF message.everyone THEN TRUE
  ELSE IF message.dm THEN TRUE
  ELSE Bot_is_relevant(bot, message.content)

\* lines 123-160: whether the handler goes on to reply
should_respond(bot, message) ==
  IF message.author = "self" THEN FALSE
  ELSE IF message.author = "other_bot" THEN FALSE
  ELSE IF message.mentioned THEN TRUE
  ELSE IF message.everyone THEN TRUE
  ELSE IF message.dm THEN TRUE
  ELSE Bot_is_relevant(bot, message.content)

\* The whole handler; chat_ok is the success of the AgentResult of ag.chat.
OnMessage(bot, chat_ok) ==
  /\ decision' =
       IF ~should_respond(bot, incoming)
         THEN [bot |-> bot, respond |-> FALSE, reply |-> "none"]
       ELSE IF incoming.content = <<>>
         THEN [bot |-> bot, respond |-> TRUE, reply |-> "How can I help you?"]
       ELSE IF chat_ok
         THEN [bot |-> bot, respond |-> TRUE, reply |-> "response"]
       ELSE [bot |-> bot, respond |-> TRUE, reply |-> "error"]
  /\ UNCHANGED <<cvars, tmvars, xvars, rvars, incoming, avars>>

RoutingIdle == incoming = NoMessage /\ decision = NoDecision

(***************************************************************************)
(* The API-call limit (agents/base.py lines 65-90) and the calls that      *)
(* reach the SDK: BaseAgent.run, BaseAgent.send_message and each class's   *)
(* chat.  One agent instance, shared by concurrent callers.                *)
(***************************************************************************)
\* config.max_api_calls (50 by default), scaled down
MaxApiCalls == 2
\* calls of one agent suspended at an await at the same time
MaxInflight == 2
\* cap of the sdk_calls counter
MaxSdk == MaxApiCalls + 2

AgentClasses == {"backend_dev", "devops", "developer"}
\* session ids the SDK hands out
Sessions == {"s1", "s2"}
NoResult == [op |-> "none", success |-> FALSE, refused |-> FALSE]
Refused(op) == [op |-> op, success |-> FALSE, refused |-> TRUE]
NoSent == [op |-> "none", resume |-> "none"]
InflightTotal == inflight.connecting + inflight.query + inflight.plain

\* BaseAgent._check_api_limit raises APILimitExceeded
limit_reached == _api_call_count >= MaxApiCalls

\* query(...) of run and of BackendDevAgent/DevOpsAgent.chat is entered: the
\* call reaches the SDK and suspends there; its messages' session_id will be
\* stored in self._session_id.
EnterQuery(inf) ==
  /\ sdk_calls < MaxSdk
  /\ sdk_calls' = sdk_calls + 1
  /\ inflight' = [inf EXCEPT !.query = @ + 1]

\* the SDK is entered by a call that stores no session id
\* (send_message's client query, DeveloperAgent.chat)
EnterPlain(inf) ==
  /\ sdk_calls < MaxSdk
  /\ sdk_calls' = sdk_calls + 1
  /\ inflight' = [inf EXCEPT !.plain = @ + 1]

\* options.resume = self._session_id, if there is one
Resume(op) == [op |-> op, resume |-> _session_id]

\* BaseAgent.run up to its await in query()
Run ==
  /\ InflightTotal < MaxInflight
  /\ IF limit_reached
       THEN /\ result' = Refused("run")
            /\ sent' = NoSent
            /\ UNCHANGED <<_api_call_count, sdk_calls, inflight>>
       ELSE /\ _api_call_count' = _api_call_count + 1
            /\ EnterQuery(inflight)
            /\ sent' = Resume("run")
            /\ result' = NoResult
  /\ UNCHANGED <<cvars, tmvars, xvars, rvars, bvars, agent_cls, _client,
                 _session_id>>

\* BaseAgent.send_message up to its first await: start_conversation's
\* connect() when there is no client yet, else the client's query.
SendMessage ==
  /\ InflightTotal < MaxInflight
  /\ IF limit_reached
       THEN /\ result' = Refused("send_message")
            /\ sent' = NoSent
            /\ UNCHANGED <<_api_call_count, sdk_calls, inflight, _client>>
       ELSE /\ _api_call_count' = _api_call_count + 1
            /\ result' = NoResult
            /\ IF ~_client
                 THEN /\ _client' = TRUE
                      /\ inflight' = [inflight EXCEPT !.connecting = @ + 1]
                      /\ sent' = NoSent
                      /\ UNCHANGED sdk_calls
                 ELSE /\ EnterPlain(inflight)
                      /\ sent' = [op |-> "send_message", resume |-> "none"]
                      /\ UNCHANGED _client
  /\ UNCHANGED <<cvars, tmvars, xvars, rvars, bvars, agent_cls, _session_id>>

\* send_message resumes after start_conversation: self._client.query(...)
SendConnected ==
  /\ inflight.connecting > 0
  /\ EnterPlain([inflight EXCEPT !.connecting = @ - 1])
  /\ sent' = [op |-> "send_message", resume |-> "none"]
  /\ result' = NoResult
  /\ UNCHANGED <<cvars, tmvars, xvars, rvars, bvars, agent_cls, _api_call_count,
                 _client, _session_id>>

\* chat of BackendDevAgent and DevOpsAgent: _check_api_limit() inside the try,
\* APILimitExceeded caught by `except Exception`.  DeveloperAgent.chat
\* (agents/developer/agent.py) calls query() without _check_api_limit() and
\* without a resume id.
Chat ==
  /\ InflightTotal < MaxInflight
  /\ IF agent_cls = "developer"
       THEN /\ EnterPlain(inflight)
            /\ sent' = [op |-> "chat", resume |-> "none"]
            /\ result' = NoResult
            /\ UNCHANGED _api_call_count
       ELSE IF limit_reached
       THEN /\ result' = Refused("chat")
            /\ sent' = NoSent
            /\ UNCHANGED <<_api_call_count, sdk_calls, inflight>>
       ELSE /\ _api_call_count' = _api_call_count + 1
            /\ EnterQuery(inflight)
            /\ sent' = Resume("chat")
            /\ result' = NoResult
  /\ UNCHANGED <<cvars, tmvars, xvars, rvars, bvars, agent_cls, _client,
                 _session_id>>

\* The response stream of run or chat ends (success) or raises (caught:
\* success=False); sid is the session_id its messages carried ("none": no
\* message carried one).
QueryDone(success, sid) ==
  /\ inflight.query > 0
  /\ inflight' = [inflight EXCEPT !.query = @ - 1]
  /\ _session_id' = IF sid = "none" THEN _session_id ELSE sid
  /\ result' = [op |-> "query", success |-> success, refused |-> FALSE]
  /\ sent' = NoSent
  /\ UNCHANGED <<cvars, tmvars, xvars, rvars, bvars, agent_cls, _api_call_count,
                 _client, sdk_calls>>

\* The response stream of send_message or DeveloperAgent.chat ends or raises.
PlainDone(success) ==
  /\ inflight.plain > 0
  /\ inflight' = [inflight EXCEPT !.plain = @ - 1]
  /\ result' = [op |-> "query", success |-> success, refused |-> FALSE]
  /\ sent' = NoSent
  /\ UNCHANGED <<cvars, tmvars, xvars, rvars, bvars, agent_cls, _api_call_count,
                 _client, sdk_calls, _session_id>>

\* BaseAgent.reset: self._session_id = None, then reset_api_count()
Reset ==
  /\ _session_id' = "none"
  /\ _api_call_count' = 0
  /\ sdk_calls' = 0
  /\ result' = NoResult
  /\ sent' = [op |-> "reset", resume |-> "none"]
  /\ UNCHANGED <<cvars, tmvars, xvars, rvars, bvars, agent_cls, _client, inflight>>

AgentIdle ==
  /\ agent_cls = "backend_dev"
  /\ _api_call_count = 0
  /\ _client = FALSE
  /\ sdk_calls = 0
  /\ inflight = [connecting |-> 0, query |-> 0, plain |-> 0]
  /\ result = NoResult
  /\ _session_id = "none"
  /\ sent = NoSent

(***************************************************************************)
(* The text a message handler passes to Discord after agent.chat           *)
(* (handlers.py lines 84-100 and 158-168, multi_bot.py lines 178-189).     *)
(* A string is modelled by its length.                                     *)
(***************************************************************************)
\* `if len(response) > 1900: response = response[:1900] + "..."`
TruncateAt == 1900
EllipsisLen == 3
\* len("Sorry, I encountered an error: ")
ErrorPrefixLen == 31
\* Discord's limit on the length of a message
DiscordLimit == 2000

Handlers == {"agent", "legacy", "multi_bot"}
MessageLens == {0, 1, 1899, 1900, 1901, 2000, 2500}
ErrorLens == {0, 4, 1969, 1970, 2500}
EmojiLens == {0, 1, 2}

\* response[:1900] + "..." for a response longer than 1900 characters
truncated(len) == IF len > TruncateAt THEN TruncateAt + EllipsisLen ELSE len

\* f"Sorry, I encountered an error: {result.error}"
error_reply(arg) == ErrorPrefixLen + arg.error_len

\* setup_agent_message_handler.on_message, lines 84-100
agent_handler_reply(arg) ==
  IF arg.success
    THEN LET response == truncated(arg.message_len) IN
         IF arg.character_mode /\ arg.has_config /\ arg.emoji_len > 0
           THEN arg.emoji_len + 1 + response
           ELSE response
    ELSE error_reply(arg)

\* setup_message_handler.on_message, lines 158-168
legacy_handler_reply(arg) ==
  IF arg.success THEN truncated(arg.message_len) ELSE error_reply(arg)

\* MultiBotCoordinator.start_all.on_message, lines 178-189
multi_bot_reply(arg) ==
  IF arg.success
    THEN LET response == truncated(arg.message_len) IN
         IF arg.character_mode THEN arg.emoji_len + 1 + response ELSE response
    ELSE error_reply(arg)

\* The handler sends its reply.
Reply ==
  /\ reply_out = -1
  /\ reply_out' =
       IF reply_in.handler = "agent" THEN agent_handler_reply(reply_in)
       ELSE IF reply_in.handler = "legacy" THEN legacy_handler_reply(reply_in)
       ELSE multi_bot_reply(reply_in)
  /\ UNCHANGED <<cvars, tmvars, rvars, bvars, avars, kvars, reply_in>>

NoReplyIn ==
  [handler |-> "none", success |-> FALSE, message_len |-> 0, error_len |-> 0,
   character_mode |-> FALSE, has_config |-> FALSE, emoji_len |-> 0]
ReplyIdle == reply_in = NoReplyIn /\ reply_out = -1

(***************************************************************************)
(* Working copies: every execution of _execute_backend_dev_task builds its *)
(* agent on the council's one work_dir, and agent.setup_repo clones into   *)
(* work_dir / <last component of the repository URL>                       *)
(* (council.py lines 153-194, backend_dev/agent.py lines 74-97,            *)
(* github/operations.py lines 35-65).                                      *)
(***************************************************************************)
\* developer task executions in a behaviour of SpecClone
MaxExecs == 3
Execs == 1..MaxExecs
\* repository URLs, as owner/name
Repos == {<<"o1", "r">>, <<"o2", "r">>, <<"o1", "q">>}
\* repo_url.rstrip("/").split("/")[-1].replace(".git", "")
repo_name(url) == url[2]
Dirs == {repo_name(url) : url \in Repos}
Idle == [repo |-> <<>>, pc |-> "idle"]

\* _execute_backend_dev_task up to its first await ("Setting up repository...").
ExecBegin(t, url) ==
  /\ work[t].pc = "idle"
  /\ work' = [work EXCEPT ![t] = [repo |-> url, pc |-> "notify_setup"]]
  /\ UNCHANGED <<cvars, tmvars, rvars, bvars, avars, pvars, clone_dirs>>

\* agent.setup_repo -> GitOperations.clone: an existing clone_path is removed
\* with shutil.rmtree, then Repo.clone_from fills it (cloned) or raises.
Clone(t, cloned) ==
  /\ work[t].pc = "notify_setup"
  /\ LET clone_path == repo_name(work[t].repo) IN
     clone_dirs' = [clone_dirs EXCEPT ![clone_path] = IF cloned THEN t ELSE 0]
  /\ work' = [work EXCEPT ![t].pc = IF cloned THEN "working" ELSE "done"]
  /\ UNCHANGED <<cvars, tmvars, rvars, bvars, avars, pvars>>

\* The implementation ends; agent.cleanup leaves the clone in place.
ExecEnd(t) ==
  /\ work[t].pc = "working"
  /\ work' = [work EXCEPT ![t].pc = "done"]
  /\ UNCHANGED <<cvars, tmvars, rvars, bvars, avars, pvars, clone_dirs>>

CloneIdle ==
  /\ work = [t \in Execs |-> Idle]
  /\ clone_dirs = [d \in Dirs |-> 0]

\* Council.__init__ (lines 29-36) with no task created yet.
CouncilInit ==
  /\ nTasks = 0
  /\ task = [o \in Objs |-> NoTask]
  /\ _tasks = [i \in Ids |-> 0]
  /\ _running_tasks = [i \in Ids |-> 0]
  /\ createPc = [o \in Objs |-> "idle"]
  /\ execPc = [o \in Objs |-> "none"]
  /\ mustCancel = [o \in Objs |-> FALSE]
  /\ cancelWait = [o \in Objs |-> 0]
  /\ approvePc = [o \in Objs |-> "idle"]
  /\ notified = [o \in Objs |-> {}]
  /\ ret = NoRet
  /\ agentOps = [o \in Objs |-> {}]
  /\ cancelledOk = [o \in Objs |-> FALSE]
  /\ _tasks_keys = <<>>
  /\ created_with = [o \in Objs |-> [repo_url |-> "none", repo_full_name |-> "none"]]
  /\ stopped = [o \in Objs |-> FALSE]
  /\ _github_client = "none"
  /\ repos_ret = NoRepos

TMIdle == tm_ret = NoRet /\ tm_deleted = FALSE /\ listed = NoList

Init ==
  /\ _default_repo \in {"none", "default"}
  /\ CouncilInit /\ ReplyIdle /\ CloneIdle
  /\ TMIdle
  /\ RelevantIdle
  /\ RoutingIdle
  /\ AgentIdle

Next ==
  \/ \E at \in AgentTypes, url \in {"none", "caller_url"},
        name \in {"none", "caller_name"}, auto \in BOOLEAN, i \in Ids :
        CreateTask(at, url, name, auto, i)
  \/ \E o \in Objs : CreateResume(o)
  \/ \E o \in Objs : StartResume(o)
  \/ \E o \in Objs : ExecStart(o)
  \/ \E o \in Objs : ExecCancelled(o)
  \/ \E o \in Objs, cloned \in BOOLEAN : ExecSetupRepo(o, cloned)
  \/ \E o \in Objs : ExecCloned(o)
  \/ \E o \in Objs : ExecImplement(o)
  \/ \E o \in Objs, success \in BOOLEAN : ExecImplemented(o, success)
  \/ \E o \in Objs : ExecChat(o)
  \/ \E o \in Objs, success \in BOOLEAN : ExecChatted(o, success)
  \/ \E o \in Objs : ExecFinish(o)
  \/ \E i \in Ids : CancelTask(i)
  \/ \E o \in Objs : CancelReturn(o)
  \/ \E i \in Ids : ApproveTask(i)
  \/ \E o \in Objs : ApproveReturn(o)
  \/ Stop

Spec == Init /\ [][Next]_vars

\* -- TaskManager on its own
StatusFilters ==
  {[given |-> FALSE, value |-> "none"], [given |-> TRUE, value |-> "pending"]}
AgentTypeFilters ==
  {[given |-> FALSE, value |-> "none"], [given |-> TRUE, value |-> ""],
   [given |-> TRUE, value |-> "devops"]}

InitTM ==
  /\ _default_repo = "none"
  /\ CouncilInit /\ ReplyIdle /\ CloneIdle /\ TMIdle /\ RelevantIdle /\ RoutingIdle /\ AgentIdle

NextTM ==
  \/ \E at \in {"developer", "devops"}, i \in Ids : TMCreateTask(at, i)
  \/ \E i \in Ids : TMGetTask(i)
  \/ \E i \in Ids : TMDeleteTask(i)
  \/ \E i \in Ids, s \in {"completed"} : TMUpdateTask(i, s)
  \/ \E status \in StatusFilters, agent_type \in AgentTypeFilters :
       TMListTasks(status, agent_type)

SpecTM == InitTM /\ [][NextTM]_vars

\* -- is_relevant on drawn inputs
InitRelevant ==
  /\ _default_repo = "none"
  /\ CouncilInit /\ ReplyIdle /\ CloneIdle /\ TMIdle /\ RoutingIdle /\ AgentIdle
  /\ _triggers \in TriggerLists(MaxCfgTriggers)
  /\ call \in [message : Strings(MaxMsgLen),
               triggers : {None} \cup {Some(l) : l \in TriggerLists(MaxTriggers)}]
  /\ relevant = Unset

NextRelevant ==
  \/ BaseIsRelevant
  \/ BackendDevIsRelevant
  \/ DevOpsIsRelevant

SpecRelevant == InitRelevant /\ [][NextRelevant]_vars

\* -- one bot of the coordinator receiving a message
InitRouting ==
  /\ _default_repo = "none"
  /\ CouncilInit /\ ReplyIdle /\ CloneIdle /\ TMIdle /\ AgentIdle
  /\ call = NoCall /\ relevant = Unset
  /\ _triggers \in TriggerLists(MaxTriggers)
  /\ incoming \in [author : Authors, mentioned : BOOLEAN, everyone : BOOLEAN,
                   dm : BOOLEAN, content : Strings(MaxMsgLen)]
  /\ decision = NoDecision

NextRouting ==
  \E bot \in {"backend_dev", "devops"}, chat_ok \in BOOLEAN :
    OnMessage(bot, chat_ok)

SpecRouting == InitRouting /\ [][NextRouting]_vars

\* -- one agent instance and its callers
InitAgent ==
  /\ _default_repo = "none"
  /\ CouncilInit /\ ReplyIdle /\ CloneIdle /\ TMIdle /\ RelevantIdle /\ RoutingIdle
  /\ agent_cls \in AgentClasses
  /\ _api_call_count = 0
  /\ _client = FALSE
  /\ sdk_calls = 0
  /\ inflight = [connecting |-> 0, query |-> 0, plain |-> 0]
  /\ result = NoResult
  /\ _session_id = "none"
  /\ sent = NoSent

NextAgent ==
  \/ Run
  \/ SendMessage
  \/ SendConnected
  \/ Chat
  \/ \E success \in BOOLEAN, sid \in Sessions \cup {"none"} :
       QueryDone(success, sid)
  \/ \E success \in BOOLEAN : PlainDone(success)
  \/ Reset

SpecAgent == InitAgent /\ [][NextAgent]_vars

\* -- the council under a fair event loop: every coroutine that can resume
\* -- is resumed (callers need not call anything)
Resumes(o) ==
  \/ CreateResume(o)
  \/ StartResume(o)
  \/ ExecStart(o)
  \/ ExecCancelled(o)
  \/ \E cloned \in BOOLEAN : ExecSetupRepo(o, cloned)
  \/ ExecCloned(o)
  \/ ExecImplement(o)
  \/ \E success \in BOOLEAN : ExecImplemented(o, success)
  \/ ExecChat(o)
  \/ \E success \in BOOLEAN : ExecChatted(o, success)
  \/ ExecFinish(o)
  \/ CancelReturn(o)
  \/ ApproveReturn(o)

SpecFair == Init /\ [][Next]_vars /\ \A o \in Objs : WF_vars(Resumes(o))

\* -- the council with its GitHub client
NextRepos ==
  \/ Next
  \/ Start
  \/ \E github_ok \in BOOLEAN : ListRepos(github_ok)

SpecRepos == Init /\ [][NextRepos]_vars

\* -- a handler replying to one chat result
InitReply ==
  /\ _default_repo = "none"
  /\ CouncilInit /\ CloneIdle /\ TMIdle /\ RelevantIdle /\ RoutingIdle /\ AgentIdle
  /\ reply_in \in [handler : Handlers, success : BOOLEAN,
                   message_len : MessageLens, error_len : ErrorLens,
                   character_mode : BOOLEAN, has_config : BOOLEAN,
                   emoji_len : EmojiLens]
  /\ reply_out = -1

NextReply == Reply

SpecReply == InitReply /\ [][NextReply]_vars

\* -- concurrently executing developer tasks and their clone directories
InitClone ==
  /\ _default_repo = "none"
  /\ CouncilInit /\ ReplyIdle /\ TMIdle /\ RelevantIdle /\ RoutingIdle /\ AgentIdle
  /\ CloneIdle

NextClone ==
  \/ \E t \in Execs, url \in Repos : ExecBegin(t, url)
  \/ \E t \in Execs, cloned \in BOOLEAN : Clone(t, cloned)
  \/ \E t \in Execs : ExecEnd(t)

SpecClone == InitClone /\ [][NextClone]_vars

(***************************************************************************)
(* Properties                                                              *)
(***************************************************************************)
Created == 1..nTasks
StatusOf(o) == task[o].status
Forward ==
  {<<"pending", "in_progress">>, <<"in_progress", "awaiting_approval">>,
   <<"awaiting_approval", "approved">>, <<"approved", "completed">>}

\* C1: every change of a task's status is the creation of the task as
\* pending, one step forward along pending -> in_progress ->
\* awaiting_approval -> approved -> completed, or a move to failed or
\* cancelled (so completed is reached only through awaiting_approval and
\* approved).
C1_LifecycleChain ==
  [][\A o \in Objs :
       StatusOf(o)' # StatusOf(o) =>
         \/ StatusOf(o) = "none" /\ StatusOf(o)' = "pending"
         \/ <<StatusOf(o), StatusOf(o)'>> \in Forward
         \/ StatusOf(o)' \in {"failed", "cancelled"}]_vars

\* C2: failed and cancelled are terminal: once a task's status is failed or
\* cancelled, no step changes it.
C2_TerminalStatuses ==
  [][\A o \in Objs :
       StatusOf(o) \in {"failed", "cancelled"} => StatusOf(o)' = StatusOf(o)]_vars

\* C3: cancel_task(id) returns True exactly when a task with that id is
\* registered with status pending or in_progress at the time of the call; it
\* then sets the status to cancelled, notifies "Task cancelled" and requests
\* cancellation of the execution registered under the id, if any.  Otherwise
\* it returns False and changes no task, no running-task entry, requests no
\* cancellation and sends no notification.
CanCancel(i) ==
  _tasks[i] # 0 /\ StatusOf(_tasks[i]) \in {"pending", "in_progress"}

C3_CancelTask ==
  [][ /\ \A o \in Objs :
          \* the call passes its checks and suspends in its notification
          cancelWait'[o] = cancelWait[o] + 1 =>
            /\ CanCancel(task[o].id) /\ _tasks[task[o].id] = o
            /\ StatusOf(o)' = "cancelled"
            /\ "Task cancelled" \in notified'[o]
            /\ LET h == _running_tasks[task[o].id] IN
                 (h # 0 /\ execPc[h] # "done" => mustCancel'[h])
            /\ _running_tasks' = _running_tasks
      \* it returns True only as the end of such a call
      /\ ret'.op = "cancel" /\ ret'.val =>
           /\ cancelWait[ret'.obj] > 0
           /\ cancelWait'[ret'.obj] = cancelWait[ret'.obj] - 1
      \* it returns False only when the check fails, and then changes nothing
      /\ ret'.op = "cancel" /\ ~ret'.val =>
           /\ ~CanCancel(ret'.id)
           /\ UNCHANGED <<task, _tasks, _running_tasks, mustCancel, notified,
                          cancelWait>>]_vars

C3_Witness ==
  /\ ret.op = "cancel" /\ ret.val
  /\ StatusOf(ret.obj) = "cancelled"
  /\ _running_tasks[ret.id] = ret.obj
  /\ mustCancel[ret.obj]

\* C4: approve_task(id) returns True exactly when a task with that id is
\* registered with status awaiting_approval at the time of the call; the task
\* then becomes approved with a "Task approved!" notification and is
\* completed when approve_task returns.  Otherwise approve_task returns False
\* and changes no task and sends no notification.
CanApprove(i) ==
  _tasks[i] # 0 /\ StatusOf(_tasks[i]) = "awaiting_approval"

C4_ApproveTask ==
  [][ /\ \A o \in Objs :
          approvePc[o] # "notify_approved" /\ approvePc'[o] = "notify_approved" =>
            /\ CanApprove(task[o].id) /\ _tasks[task[o].id] = o
            /\ StatusOf(o)' = "approved"
            /\ "Task approved!" \in notified'[o]
      /\ ret'.op = "approve" /\ ret'.val =>
           /\ approvePc[ret'.obj] = "notify_approved"
           /\ approvePc'[ret'.obj] = "idle"
           /\ task'[ret'.obj].status = "completed"
           /\ "Task approved!" \in notified[ret'.obj]
      /\ ret'.op = "approve" /\ ~ret'.val =>
           /\ ~CanApprove(ret'.id)
           /\ UNCHANGED <<task, _tasks, notified, approvePc>>]_vars

C4_Witness ==
  /\ ret.op = "approve" /\ ret.val
  /\ StatusOf(ret.obj) = "completed"
  /\ "Task approved!" \in notified[ret.obj]
  /\ "Implementation complete" \in notified[ret.obj]

\* C5: after cancel_task has returned True for a task, no agent is set up or
\* run for it and its status never becomes in_progress, awaiting_approval or
\* completed.
C5_CancelStopsWork ==
  [][\A o \in Objs :
       cancelledOk[o] =>
         /\ agentOps'[o] = agentOps[o]
         /\ (StatusOf(o)' # StatusOf(o) =>
              StatusOf(o)' \notin {"in_progress", "awaiting_approval", "completed"})]_vars

\* C6: distinct tasks never share an id, so create_task never replaces a
\* registry entry: as long as no delete_task has removed one, the registry
\* holds one entry per created task and get_task(t.id) is t for every task t.
C6_UniqueIds ==
  ~tm_deleted =>
    /\ \A o1, o2 \in Created : o1 # o2 => task[o1].id # task[o2].id
    /\ Cardinality({i \in Ids : _tasks[i] # 0}) = nTasks
    /\ \A o \in Created : get_task(task[o].id) = o

\* Case-insensitive occurrence of trigger t in message m, stated on characters.
SameLetter(c, d) == c = d \/ {c, d} = {"a", "A"}
OccursIn(t, m) ==
  \E k \in 1..(Len(m) + 1) :
    /\ k + Len(t) - 1 <= Len(m)
    /\ \A j \in 1..Len(t) : SameLetter(t[j], m[k + j - 1])
SomeOccurs(l, m) == \E n \in 1..Len(l) : OccursIn(l[n], m)

\* C7: for a non-empty trigger list passed to is_relevant, each agent class
\* returns True iff some trigger occurs in the message case-insensitively
\* (hence the three classes agree).
C7_TriggerMatch ==
  relevant.cls # "none" /\ call.triggers.given /\ call.triggers.list # <<>> =>
    relevant.val = SomeOccurs(call.triggers.list, call.message)

C7_Witness ==
  /\ relevant.cls = "devops" /\ relevant.val
  /\ call.triggers.given /\ Len(call.triggers.list) = 2
  /\ ~OccursIn(call.triggers.list[1], call.message)
  /\ call.triggers.list[2] = <<"b", "A">>
  /\ call.message = <<"a", "b", "a">>

\* C8: with no triggers passed and none configured, is_relevant returns True
\* for every message, for every agent class.
C8_NoTriggersAlwaysRelevant ==
  /\ relevant.cls # "none"
  /\ ~(call.triggers.given /\ call.triggers.list # <<>>)
  /\ _triggers = <<>>
  => relevant.val

\* C9: the API-call counter and the number of calls that reached the SDK
\* since the last reset never exceed max_api_calls; at the limit no call
\* goes on to the SDK, and a refused call has success=False and changes
\* neither the counter nor the SDK.
C9_ApiLimit ==
  /\ [](_api_call_count <= MaxApiCalls /\ sdk_calls <= MaxApiCalls)
  /\ [][/\ _api_call_count >= MaxApiCalls => InflightTotal' <= InflightTotal
        /\ result'.refused =>
             /\ ~result'.success
             /\ UNCHANGED <<_api_call_count, sdk_calls, inflight>>]_vars

\* C10: a bot never goes on to reply to a message authored by itself or by
\* another bot; to a message of a non-bot author it does iff it is mentioned,
\* or the message mentions @everyone/@here, or it is a DM, or its content
\* matches one of the configured triggers.
C10_Routing ==
  decision.bot # "none" =>
    IF incoming.author \in {"self", "other_bot"}
      THEN ~decision.respond /\ decision.reply = "none"
      ELSE decision.respond =
             (\/ incoming.mentioned
              \/ incoming.everyone
              \/ incoming.dm
              \/ SomeOccurs(_triggers, incoming.content))

C10_Witness ==
  /\ decision.bot = "backend_dev" /\ decision.respond
  /\ decision.reply = "response"
  /\ incoming.author = "human"
  /\ ~incoming.mentioned /\ ~incoming.everyone /\ ~incoming.dm
  /\ Len(_triggers) = 2 /\ ~OccursIn(_triggers[1], incoming.content)

\* C11 (as amended): a task created with auto_start=False never has an
\* execution spawned or registered, and is pending from its creation for as
\* long as cancel_task has not been called for it (which may happen before
\* create_task returns, during the "Task created" notification);
\* create_task(auto_start=True) returns only after the task was moved to
\* in_progress and in the step that registers its execution in the
\* running-task set.
CancelCalled(o) == "Task cancelled" \in notified[o]

C11_AutoStart ==
  [][ /\ \A o \in Objs :
          (StatusOf(o)' # "none" /\ ~task'[o].auto_start) =>
            /\ execPc'[o] = "none"
            /\ \A i \in Ids : _running_tasks'[i] # o
            /\ (~CancelCalled(o)' => StatusOf(o)' = "pending")
      /\ (ret'.op = "create" /\ task'[ret'.obj].auto_start) =>
           /\ "Task started" \in notified[ret'.obj]
           /\ _running_tasks'[ret'.id] = ret'.obj
           /\ execPc'[ret'.obj] = "ready"
           /\ ("Task cancelled" \notin notified'[ret'.obj] =>
                task'[ret'.obj].status = "in_progress")
    ]_vars

\* C11 as stated: create_task(auto_start=False) returns a task whose status
\* is pending.
C11_ReturnsPending ==
  [][(ret'.op = "create" /\ ~task'[ret'.obj].auto_start) =>
       task'[ret'.obj].status = "pending"]_vars

C11_Witness ==
  /\ ret.op = "create" /\ task[ret.obj].auto_start
  /\ _running_tasks[ret.id] = ret.obj
  /\ execPc[ret.obj] = "ready"
  /\ StatusOf(ret.obj) = "in_progress"

\* C12: a repo_url (a repo_full_name) the caller of create_task passed is
\* stored unchanged on the task; the council's default repository is stored
\* only in a field the caller left unset.
C12_DefaultRepo ==
  \A o \in Created :
    /\ created_with[o].repo_url # "none" =>
         task[o].repo_url = created_with[o].repo_url
    /\ created_with[o].repo_full_name # "none" =>
         task[o].repo_full_name = created_with[o].repo_full_name
    /\ created_with[o].repo_url = "none" =>
         task[o].repo_url \in {"none", "default_url"}
    /\ created_with[o].repo_full_name = "none" =>
         task[o].repo_full_name \in {"none", _default_repo}

\* C13: under a fair event loop, every task whose execution stop() found
\* registered in the running-task set eventually has status cancelled and
\* is eventually removed from the running-task set.
C13_StopCancels ==
  \A o \in Objs :
    /\ stopped[o] ~> (StatusOf(o) = "cancelled")
    /\ stopped[o] ~> (\A i \in Ids : _running_tasks[i] # o)

\* C14: list_tasks(status, agent_type) returns exactly the registered tasks
\* that match the filters given, each once, newest-created first (tasks are
\* numbered in the order of their creation), and leaves the registry as it is.
RegisteredTasks == {_tasks[i] : i \in Ids} \ {0}

Matches(o, status, agent_type) ==
  /\ status.given => task[o].status = status.value
  /\ agent_type.given => task[o].agent_type = agent_type.value

C14_ListTasks ==
  [][listed'.called =>
       LET r == listed'.tasks
           want == {o \in RegisteredTasks :
                      Matches(o, listed'.status, listed'.agent_type)}
       IN /\ {r[k] : k \in 1..Len(r)} = want
          /\ Len(r) = Cardinality(want)
          /\ \A a, b \in 1..Len(r) : a < b => r[a] > r[b]
          /\ UNCHANGED <<_tasks, _tasks_keys, task>>]_vars

C15_ListRepos ==
  repos_ret.outcome # "none" =>
    /\ repos_ret.outcome # "raised"
    /\ repos_ret.outcome =
         IF repos_ret.client = "connected" /\ repos_ret.github_ok
           THEN "full_names"
           ELSE "empty"

C15_Witness ==
  /\ repos_ret.client = "closed" /\ repos_ret.github_ok
  /\ repos_ret.outcome = "empty"
  /\ _github_client = "connected"

\* C16: reset() sets the session id to None and the API-call count to 0 and
\* changes nothing else on the agent; the next run/chat after it is sent
\* without a resume id, and no call is refused before max_api_calls calls
\* have been counted since.
C16_Reset ==
  [][ /\ (sent'.op = "reset" =>
            /\ _session_id' = "none"
            /\ _api_call_count' = 0
            /\ UNCHANGED <<agent_cls, _client, _triggers>>)
      /\ (sdk_calls = 0 /\ sent'.op \in {"run", "chat"} =>
            sent'.resume = "none")
      /\ (result'.refused => _api_call_count >= MaxApiCalls) ]_vars

\* a task _execute_task cannot hand to an agent
Undispatchable(o) ==
  \/ task[o].agent_type \notin {"developer", "backend_dev", "devops"}
  \/ /\ task[o].agent_type \in {"developer", "backend_dev"}
     /\ (task[o].repo_url = "none" \/ task[o].repo_full_name = "none")

\* C18: a task that cannot be dispatched never has an agent created, a
\* repository cloned or an SDK call made for it, and once its execution has
\* recorded the error and ended, its status is failed and its execution is
\* no longer in the running-task set.
C18_FailsCleanly ==
  \A o \in Created :
    Undispatchable(o) =>
      /\ agentOps[o] = {}
      /\ (task[o].error /\ execPc[o] = "done" =>
            /\ task[o].status = "failed"
            /\ _running_tasks[task[o].id] # o)

\* C19: the text a message handler passes to Discord is never longer than
\* Discord's limit of 2000 characters, whatever the lengths of the agent's
\* response, of its error string and of the configured emoji.
C19_ReplyLimit == reply_out # -1 => reply_out <= DiscordLimit

\* C20: a clone directory that an execution has cloned and is still working
\* in is not deleted or replaced by the repository setup of another
\* execution.
C20_OwnClone ==
  [][ \A d \in Dirs, t \in Execs :
        clone_dirs[d] = t /\ work[t].pc = "working" => clone_dirs'[d] = t ]_vars

====
